---- MODULE Spec2Model ----
(***************************************************************************)
(* A model of PySqlHelper: the abstract SqlHelper (sql_helper.py), its     *)
(* SqliteHelper adapter and the MysqlHelper adapter (sql_helper_mysql.py). *)
(*                                                                         *)
(* Representation.  A text (a Python str) is the sequence of its lexemes;  *)
(* its value is their concatenation.  The characters the code's regular    *)
(* expressions look at ("%", "s", "?", "(", ")") are lexemes of their own; *)
(* a longer lexeme ("SELECT ", "Test", "unix_timestamp") is a run of text  *)
(* no pattern match can begin or end inside.  A scalar (a bind value, a    *)
(* field of a row) is the lexeme str() renders it as, and Python's None    *)
(* (SQL NULL) is NoneV.  A mapping (a dict, which keeps insertion order)   *)
(* is a sequence of <<key, value>> pairs with distinct keys.               *)
(***************************************************************************)
EXTENDS Integers, Sequences, FiniteSets, TLC

VARIABLES
    adapter,    \* the class of the helper: "sqlite" or "mysql"
    _con,       \* self._con: 0 is None, otherwise the id of a connection
    opened,     \* connections opened so far; their ids are 1..opened
    lazy,       \* calls of connect() made by the con accessor
    row_factory,\* Connection.row_factory of every connection
    table,      \* the rows of table Test as the helper's connection sees them
    committed,  \* the rows of table Test committed in the database
    txn,        \* the open write transaction of every connection
    _last_sql,  \* self._last_sql: <<>> is None, otherwise <<text>>
    _last_bind, \* self._last_bind: <<>> is None, otherwise <<list of scalars>>
    ret         \* the last call: operation, arguments and what it returned

vars ==
    <<adapter, _con, opened, lazy, row_factory, table, committed, txn, _last_sql, _last_bind, ret>>

-----------------------------------------------------------------------------
(* Bounds of the model. *)

MaxRows == 2
MaxConn == 2
MaxLen == 3

-----------------------------------------------------------------------------
(* Values and texts. *)

NoneV == "None"

Scalars == {"1", "2"}

Columns == <<"Id", "Value">>

TableName == "Test"

\* The lexeme of the backquote character, which a TLA+ string cannot hold.
Backquote == "BQ"

Range(s) == {s[i] : i \in 1..Len(s)}

\* F(v), with v computed once.
Bind(v, F(_)) == CHOOSE r \in {F(x) : x \in {v}} : TRUE

\* sep.join(parts): parts is a sequence of texts, sep a text.
RECURSIVE Join(_, _)
Join(sep, parts) ==
    IF parts = <<>> THEN <<>>
    ELSE IF Len(parts) = 1 THEN parts[1]
    ELSE parts[1] \o sep \o Join(sep, Tail(parts))

\* All sequences over S of length at most n.
RECURSIVE SeqsUpTo(_, _)
SeqsUpTo(S, n) ==
    IF n = 0 THEN {<<>>}
    ELSE Bind(SeqsUpTo(S, n - 1), LAMBDA shorter :
             shorter \cup {Append(s, x) : s \in shorter, x \in S})

IsPrefix(p, s) == Len(p) <= Len(s) /\ SubSeq(s, 1, Len(p)) = p

Drop(s, n) == SubSeq(s, n + 1, Len(s))

\* The number of non-overlapping occurrences of pat in s, scanning from the left.
RECURSIVE Count(_, _)
Count(pat, s) ==
    IF s = <<>> THEN 0
    ELSE IF IsPrefix(pat, s) THEN 1 + Count(pat, Drop(s, Len(pat)))
    ELSE Count(pat, Tail(s))

\* str.lower() of a lexeme, for the lexemes of the model.
Lower(x) == IF x = "UNIX_TIMESTAMP" THEN "unix_timestamp" ELSE x

LowerText(s) == [i \in 1..Len(s) |-> Lower(s[i])]

\* re.sub(pat, repl, s): every non-overlapping match of the literal pattern,
\* leftmost first, is replaced; ignorecase compares lower-cased lexemes.
RECURSIVE ReSub(_, _, _, _)
ReSub(pat, repl, s, ignorecase) ==
    IF s = <<>> THEN <<>>
    ELSE IF IsPrefix(pat, IF ignorecase THEN LowerText(s) ELSE s)
         THEN repl \o ReSub(pat, repl, Drop(s, Len(pat)), ignorecase)
         ELSE <<Head(s)>> \o ReSub(pat, repl, Tail(s), ignorecase)

Digit(d) == CASE d = 0 -> "0" [] d = 1 -> "1" [] d = 2 -> "2" [] d = 3 -> "3"
              [] d = 4 -> "4" [] d = 5 -> "5" [] d = 6 -> "6" [] d = 7 -> "7"
              [] d = 8 -> "8" [] d = 9 -> "9"

\* str(n) for a natural number n, one lexeme per digit.
RECURSIVE IntToStr(_)
IntToStr(n) == IF n < 10 THEN <<Digit(n)>> ELSE IntToStr(n \div 10) \o <<Digit(n % 10)>>

\* str(v) for a scalar or None.
Str(v) == <<v>>

QMark == <<"?">>

PercentS == <<"%", "s">>

\* int(time.time()) at the moments the model looks at the clock.
Times == {7, 1793299911}

-----------------------------------------------------------------------------
(* Dialect translation. *)

\* SqliteHelper.sql_to_sqlite3, the clock reading unix_time.
sql_to_sqlite3(sql, unix_time) ==
    LET s1 == ReSub(PercentS, QMark, sql, FALSE)
    IN ReSub(<<"unix_timestamp", "(", ")">>, IntToStr(unix_time), s1, TRUE)

\* A translation that rewrites the first "?" only.
sql_to_mysql_first(sql) ==
    IF "?" \notin Range(sql) THEN sql
    ELSE LET i == CHOOSE k \in 1..Len(sql) : sql[k] = "?" /\ \A j \in 1..(k - 1) : sql[j] # "?"
         IN SubSeq(sql, 1, i - 1) \o PercentS \o Drop(sql, i)

\* MysqlHelper.sql_to_mysql.
sql_to_mysql(sql) == ReSub(QMark, PercentS, sql, FALSE)

\* The clock readings that can matter to a statement: time.time() shows only
\* in the translation of a statement that names unix_timestamp.
ClockFor(sql) == IF "unix_timestamp" \in Range(LowerText(sql)) THEN Times ELSE {0}

-----------------------------------------------------------------------------
(* The database driver (sqlite3, pymysql), the opaque collaborator behind  *)
(* Cursor.execute: it reads a statement in its own placeholder syntax,     *)
(* binds the i-th placeholder of the text to the i-th bind value and runs  *)
(* it on table Test.  The driver knows nothing of the helper: it parses    *)
(* the text it is handed.                                                  *)

ColumnSet == Range(Columns)

\* The index of the first lexeme x in s, 0 if there is none.
RECURSIVE IndexOf(_, _)
IndexOf(s, x) ==
    IF s = <<>> THEN 0
    ELSE IF Head(s) = x THEN 1
    ELSE Bind(IndexOf(Tail(s), x), LAMBDA i : IF i = 0 THEN 0 ELSE i + 1)

\* s.split(x) for a lexeme x: at least one piece, possibly empty.
RECURSIVE SplitOn(_, _)
SplitOn(s, x) ==
    Bind(IndexOf(s, x), LAMBDA i :
        IF i = 0 THEN <<s>>
        ELSE <<SubSeq(s, 1, i - 1)>> \o SplitOn(Drop(s, i), x))

\* A column name, bare or in backquotes; "" when t is no column of the table.
Identifier(t) ==
    IF Len(t) = 1 /\ t[1] \in ColumnSet THEN t[1]
    ELSE IF Len(t) = 3 /\ t[1] = Backquote /\ t[3] = Backquote /\ t[2] \in ColumnSet THEN t[2]
    ELSE ""

\* An operand: "?" for a placeholder of the driver, a literal scalar, or "!" for a syntax error.
Operand(marker, t) ==
    IF t = marker THEN "?"
    ELSE IF Len(t) = 1 /\ t[1] \in Scalars THEN t[1]
    ELSE "!"

\* "col = operand" as <<column, operand>>.
Equation(marker, t) ==
    Bind(IndexOf(t, "="), LAMBDA j :
        IF j = 0 THEN <<"", "!">>
        ELSE <<Identifier(SubSeq(t, 1, j - 1)), Operand(marker, Drop(t, j))>>)

\* The equations of a list "e1 sep e2 sep ...".
Equations(marker, t, sep) ==
    Bind(SplitOn(t, sep), LAMBDA items : [i \in 1..Len(items) |-> Equation(marker, items[i])])

\* The values of the operands: the k-th placeholder takes the k-th bind value.
RECURSIVE Bound(_, _)
Bound(operands, bind) ==
    IF operands = <<>> THEN <<>>
    ELSE IF Head(operands) = "?"
         THEN <<Head(bind)>> \o Bound(Tail(operands), Tail(bind))
         ELSE <<Head(operands)>> \o Bound(Tail(operands), bind)

Placeholders(operands) == Cardinality({i \in 1..Len(operands) : operands[i] = "?"})

DriverError(tbl) == [ok |-> FALSE, names |-> <<>>, rows |-> <<>>, table |-> tbl]

DriverOk(names, rows, tbl) == [ok |-> TRUE, names |-> names, rows |-> rows, table |-> tbl]

\* SQL equality: NULL equals nothing.
SqlEq(a, b) == a # NoneV /\ b # NoneV /\ a = b

\* Whether row r satisfies every "col = value" of conds.
Matches(r, conds) == \A i \in 1..Len(conds) : SqlEq(r[conds[i][1]], conds[i][2])

\* Row r with the assignments applied, left to right.
RECURSIVE Assigned(_, _)
Assigned(r, sets) ==
    IF sets = <<>> THEN r
    ELSE Assigned([r EXCEPT ![Head(sets)[1]] = Head(sets)[2]], Tail(sets))

\* The columns and operands of "INSERT INTO Test(cols) VALUES(operands)".
ParseInsert(marker, s) ==
    Bind(IndexOf(s, ")"), LAMBDA close :
        IF ~(/\ Len(s) >= 8
             /\ s[2] = TableName /\ s[3] = "("
             /\ close >= 4 /\ Len(s) >= close + 3
             /\ s[close + 1] = " VALUES" /\ s[close + 2] = "(" /\ s[Len(s)] = ")")
        THEN [ok |-> FALSE, cols |-> <<>>, ops |-> <<>>]
        ELSE Bind(<<SplitOn(SubSeq(s, 4, close - 1), ","),
                    SplitOn(SubSeq(s, close + 3, Len(s) - 1), ",")>>, LAMBDA parts :
                 Bind([cols |-> [i \in 1..Len(parts[1]) |-> Identifier(parts[1][i])],
                       ops |-> [i \in 1..Len(parts[2]) |-> Operand(marker, parts[2][i])]],
                      LAMBDA p :
                     [ok |-> /\ \A i \in 1..Len(p.cols) : p.cols[i] # ""
                             /\ \A i \in 1..Len(p.ops) : p.ops[i] # "!"
                             /\ Len(p.cols) = Len(p.ops),
                      cols |-> p.cols, ops |-> p.ops])))

DriverInsert(marker, s, bind, tbl) ==
    Bind(ParseInsert(marker, s), LAMBDA p :
        IF ~p.ok \/ Placeholders(p.ops) # Len(bind) THEN DriverError(tbl)
        ELSE Bind(Bound(p.ops, bind), LAMBDA vals :
                 DriverOk(<<>>, <<>>,
                     Append(tbl, Assigned([c \in ColumnSet |-> NoneV],
                                          [i \in 1..Len(p.cols) |-> <<p.cols[i], vals[i]>>]))))
    )

\* The assignments and conditions of
\* "UPDATE 'Test' SET col=operand, ... [WHERE col=operand AND ...]".
ParseUpdate(marker, s) ==
    Bind(IndexOf(s, " WHERE "), LAMBDA w :
        IF ~(/\ Len(s) >= 7
             /\ s[2] = Backquote /\ s[3] = TableName /\ s[4] = Backquote
             /\ s[5] = " " /\ s[6] = "SET ")
        THEN [ok |-> FALSE, sets |-> <<>>, conds |-> <<>>]
        ELSE Bind([sets |-> Equations(marker, IF w = 0 THEN Drop(s, 6) ELSE SubSeq(s, 7, w - 1), ", "),
                   conds |-> IF w = 0 THEN <<>> ELSE Equations(marker, Drop(s, w), " AND ")],
                  LAMBDA p :
                 [ok |-> \A e \in Range(p.sets) \cup Range(p.conds) : e[1] # "" /\ e[2] # "!",
                  sets |-> p.sets, conds |-> p.conds]))

\* The equations with their operands replaced by the values bound to them.
WithValues(eqs, vals) == [i \in 1..Len(eqs) |-> <<eqs[i][1], vals[i]>>]

Operands(eqs) == [i \in 1..Len(eqs) |-> eqs[i][2]]

DriverUpdate(marker, s, bind, tbl) ==
    Bind(ParseUpdate(marker, s), LAMBDA p :
        IF ~p.ok \/ Placeholders(Operands(p.sets \o p.conds)) # Len(bind) THEN DriverError(tbl)
        ELSE Bind(Bound(Operands(p.sets \o p.conds), bind), LAMBDA vals :
                 Bind([sets |-> WithValues(p.sets, SubSeq(vals, 1, Len(p.sets))),
                       conds |-> WithValues(p.conds, Drop(vals, Len(p.sets)))], LAMBDA b :
                     DriverOk(<<>>, <<>>,
                         [i \in 1..Len(tbl) |->
                             IF Matches(tbl[i], b.conds) THEN Assigned(tbl[i], b.sets)
                             ELSE tbl[i]]))))

\* The rows of tbl satisfying conds, in table order.
RECURSIVE Selected(_, _)
Selected(tbl, conds) ==
    IF tbl = <<>> THEN <<>>
    ELSE (IF Matches(Head(tbl), conds) THEN <<Head(tbl)>> ELSE <<>>)
         \o Selected(Tail(tbl), conds)

\* "SELECT operands": one row of values, each column named by its text.
DriverSelectValues(marker, s, bind, tbl) ==
    Bind(SplitOn(Drop(s, 1), ","), LAMBDA items :
        Bind([i \in 1..Len(items) |-> Operand(marker, items[i])], LAMBDA ops :
            IF Len(s) < 2 \/ (\E i \in 1..Len(ops) : ops[i] = "!")
               \/ Placeholders(ops) # Len(bind)
            THEN DriverError(tbl)
            ELSE DriverOk([i \in 1..Len(items) |-> Head(items[i])], <<Bound(ops, bind)>>, tbl)))

\* "SELECT * | cols FROM Test [WHERE col=operand AND ...]".
DriverSelectFrom(marker, s, bind, tbl, f) ==
    Bind([w |-> IndexOf(s, " WHERE "),
          cols |-> IF SubSeq(s, 2, f - 1) = <<"*">> THEN Columns
                   ELSE Bind(SplitOn(SubSeq(s, 2, f - 1), ","), LAMBDA items :
                            [i \in 1..Len(items) |-> Identifier(items[i])])], LAMBDA p :
        IF ~(/\ Len(s) >= f + 1 /\ s[f + 1] = TableName
             /\ (p.w = 0 => Len(s) = f + 1)
             /\ (p.w # 0 => p.w = f + 2)
             /\ \A i \in 1..Len(p.cols) : p.cols[i] # "")
        THEN DriverError(tbl)
        ELSE Bind(IF p.w = 0 THEN <<>> ELSE Equations(marker, Drop(s, p.w), " AND "), LAMBDA conds :
                 IF (\E e \in Range(conds) : e[1] = "" \/ e[2] = "!")
                    \/ Placeholders(Operands(conds)) # Len(bind)
                 THEN DriverError(tbl)
                 ELSE Bind(Selected(tbl, WithValues(conds, Bound(Operands(conds), bind))),
                           LAMBDA hits :
                          DriverOk(p.cols,
                                   [i \in 1..Len(hits) |->
                                       [j \in 1..Len(p.cols) |-> hits[i][p.cols[j]]]],
                                   tbl))))

DriverSelect(marker, s, bind, tbl) ==
    Bind(IndexOf(s, " FROM "), LAMBDA f :
        IF f = 0 THEN DriverSelectValues(marker, s, bind, tbl)
        ELSE DriverSelectFrom(marker, s, bind, tbl, f))

\* Cursor.execute(sql, bind) of a driver whose placeholder is marker: the
\* outcome, the result set (column names and rows) and the table afterwards.
DriverExecute(marker, sql, bind, tbl) ==
    IF sql = <<>> THEN DriverError(tbl)
    ELSE IF sql[1] = "INSERT INTO " THEN DriverInsert(marker, sql, bind, tbl)
    ELSE IF sql[1] = "UPDATE " THEN DriverUpdate(marker, sql, bind, tbl)
    ELSE IF sql[1] = "SELECT " THEN DriverSelect(marker, sql, bind, tbl)
    ELSE DriverError(tbl)

\* The statements that write.
Writes(sql) == sql # <<>> /\ sql[1] \in {"INSERT INTO ", "UPDATE "}

\* A connection without an open write transaction.
NoTxn == [open |-> FALSE, rows |-> <<>>, records |-> FALSE, gaps |-> FALSE]

\* Table Test as connection c sees it: the committed rows, or the rows of
\* its own open transaction.  No connection of a helper ever commits.
View(t, c, stored) == IF c \in DOMAIN t /\ t[c].open THEN t[c].rows ELSE stored

\* Whether a write of connection c waits, until the driver gives up, for a
\* lock held by the open transaction of another connection.  sqlite3 has one
\* writer per database.  InnoDB, with no index on Test, locks every record
\* and gap an UPDATE scans and every record an INSERT adds: an UPDATE waits
\* for a locked record, an INSERT for a locked gap.
Locked(cls, t, c, sql) ==
    \E d \in DOMAIN t \ {c} :
       /\ t[d].open
       /\ IF cls = "sqlite" THEN TRUE
          ELSE IF sql[1] = "UPDATE " THEN t[d].records ELSE t[d].gaps

\* The transaction of a connection after its write sql left rows.
Written(old, sql, before, rows) ==
    [open |-> TRUE, rows |-> rows,
     records |-> old.records \/ sql[1] = "INSERT INTO " \/ before # <<>>,
     gaps |-> old.gaps \/ sql[1] = "UPDATE "]

\* Cursor.execute(sql, bind) on connection c, which sees tbl: the outcome of
\* DriverExecute, and the transactions afterwards.  The driver opens a
\* transaction at the first statement that writes.
Run(cls, marker, sql, bind, tbl, t, c) ==
    Bind(DriverExecute(marker, sql, bind, tbl), LAMBDA res :
        IF ~(res.ok /\ Writes(sql)) THEN [res |-> res, txn |-> t]
        ELSE IF Locked(cls, t, c, sql) THEN [res |-> DriverError(tbl), txn |-> t]
        ELSE [res |-> res, txn |-> [t EXCEPT ![c] = Written(t[c], sql, tbl, res.table)]])

-----------------------------------------------------------------------------
(* SqlHelper: the statements it builds and the values it returns.          *)
(* An Optional value is a sequence of length at most one: <<>> is None.    *)

Keys(m) == [i \in 1..Len(m) |-> m[i][1]]

Values(m) == [i \in 1..Len(m) |-> m[i][2]]

\* The texts of a sequence of lexemes, one lexeme each.
Texts(xs) == [i \in 1..Len(xs) |-> <<xs[i]>>]

\* SqlHelper.insert: the statement built from attributes.
insert_sql(tbl, attributes) ==
    LET fields == <<Backquote>> \o Join(<<Backquote, ",", Backquote>>, Texts(Keys(attributes)))
                  \o <<Backquote>>
        placeholder_list == [i \in 1..Len(attributes) |-> "?"]
        placeholders == Join(<<",">>, Texts(placeholder_list))
    IN <<"INSERT INTO ", tbl, "(">> \o fields \o <<")", " VALUES", "(">> \o placeholders \o <<")">>

\* SqlHelper.insert: the bind list handed to execute.
insert_bind(attributes) == Values(attributes)

\* SqlHelper.update: the statement built from attributes and filters.
update_sql(tbl, attributes, filters) ==
    LET set_str == <<"SET ", Backquote>>
                   \o Join(<<Backquote, "=", "?", ", ", Backquote>>, Texts(Keys(attributes)))
                   \o <<Backquote, "=", "?">>
        where_str == IF Len(filters) > 0
                     THEN <<" WHERE ", Backquote>>
                          \o Join(<<Backquote, "=", "?", " AND ", Backquote>>, Texts(Keys(filters)))
                          \o <<Backquote, "=", "?">>
                     ELSE <<>>
    IN <<"UPDATE ", Backquote, tbl, Backquote, " ">> \o set_str \o where_str

\* A bind list with the filter values ahead of the attribute values.
update_bind_filters_first(attributes, filters) ==
    IF Len(filters) > 0 THEN Values(filters) \o Values(attributes) ELSE Values(attributes)

\* SqlHelper.update: the bind list handed to execute.
update_bind(attributes, filters) ==
    IF Len(filters) > 0 THEN Values(attributes) \o Values(filters) ELSE Values(attributes)

\* SqlHelper.last_sql on the recorded statement; raised is "TypeError" when
\* map(str, None) is joined.
last_sql(sql, bind) ==
    IF bind = <<>> THEN [raised |-> "TypeError", text |-> <<>>]
    ELSE [raised |-> "",
          text |-> <<"SQL: ">> \o (IF sql = <<>> THEN <<NoneV>> ELSE sql[1]) \o <<", Bind: (">>
                   \o Join(<<", ">>, [i \in 1..Len(bind[1]) |-> Str(bind[1][i])]) \o <<")">>]

\* d[key] = value on a dict held as parallel sequences of keys and values.
DictSet(d, key, value) ==
    IF \E i \in 1..Len(d.names) : d.names[i] = key
    THEN [d EXCEPT !.vals = [i \in 1..Len(d.vals) |-> IF d.names[i] = key THEN value ELSE d.vals[i]]]
    ELSE [d EXCEPT !.names = Append(d.names, key), !.vals = Append(d.vals, value)]

\* sqlite_dict_factory: the dict of a row, keyed by the cursor's description;
\* DictFill is its loop over the first n columns.
RECURSIVE DictFill(_, _, _)
DictFill(description, row, n) ==
    IF n = 0 THEN [shape |-> "dict", names |-> <<>>, vals |-> <<>>]
    ELSE Bind(DictFill(description, row, n - 1), LAMBDA d : DictSet(d, description[n], row[n]))

sqlite_dict_factory(description, row) == DictFill(description, row, Len(description))

\* A fetched row as the cursor's row factory shapes it.
Shaped(factory, description, row) ==
    IF factory = "dict" THEN sqlite_dict_factory(description, row)
    ELSE [shape |-> "tuple", names |-> <<>>, vals |-> row]

\* Cursor.fetchall().
fetchall(cur) == [i \in 1..Len(cur.rows) |-> Shaped(cur.factory, cur.names, cur.rows[i])]

\* The n-th Cursor.fetchone() as an Optional row.
fetchone(cur, n) == IF n <= Len(cur.rows) THEN <<fetchall(cur)[n]>> ELSE <<>>

\* bool(row) of an Optional row.
Truthy(row) == row # <<>> /\ Len(row[1].vals) > 0

\* row[0] raises KeyError on a dict keyed by column names.
HasItem0(row) == row.shape = "tuple" /\ Len(row.vals) > 0

-----------------------------------------------------------------------------
(* The con accessor and execute of the two adapters.                       *)

Adapters == {"sqlite", "mysql"}

Conns == 1..MaxConn

NoCursor == [names |-> <<>>, rows |-> <<>>, factory |-> "None"]

\* The helper's state as a record, for the outcome of a call.
Here ==
    [raised |-> "", cur |-> NoCursor, con |-> _con, opened |-> opened, lazy |-> lazy,
     rf |-> row_factory, table |-> table, txn |-> txn,
     last_sql |-> _last_sql, last_bind |-> _last_bind]

\* A call that could not be bound to the method's parameters: nothing ran.
Unbound == [Here EXCEPT !.raised = "TypeError"]

\* An accessor that does not look at the cache: it connects whenever the
\* model has a connection left to open.
con_reconnects(h) ==
    IF h.opened < MaxConn
    THEN [h EXCEPT !.con = h.opened + 1, !.opened = h.opened + 1, !.lazy = h.lazy + 1,
                   !.table = View(h.txn, h.opened + 1, committed)]
    ELSE h

\* The con property: the cached connection, or connect() once and cache it.
con(h) ==
    IF h.con = 0
    THEN [h EXCEPT !.con = h.opened + 1, !.opened = h.opened + 1, !.lazy = h.lazy + 1,
                   !.table = View(h.txn, h.opened + 1, committed)]
    ELSE h

\* The abstract SqlHelper.execute: record the statement for last_sql.
base_execute(h, sql, bind) == [h EXCEPT !.last_sql = <<sql>>, !.last_bind = <<bind>>]

\* SqliteHelper.execute(sql, bind, fetch_dicts).
sqlite_execute(sql, bind, fetch_dicts, now) ==
    Bind(con(base_execute(Here, sql, bind)), LAMBDA h :
        Bind([saved_row_factory |-> h.rf[h.con],
              factory |-> IF fetch_dicts THEN "dict" ELSE h.rf[h.con],
              text |-> sql_to_sqlite3(sql, now)], LAMBDA l :
            Bind(Run("sqlite", QMark, l.text, bind, h.table, h.txn, h.con), LAMBDA r :
                IF r.res.ok
                THEN [h EXCEPT !.cur = [names |-> r.res.names, rows |-> r.res.rows,
                                        factory |-> l.factory],
                               !.table = r.res.table, !.txn = r.txn,
                               !.rf = [h.rf EXCEPT ![h.con] = l.saved_row_factory]]
                ELSE [h EXCEPT !.raised = "DriverError",
                               !.rf = [h.rf EXCEPT ![h.con] = l.factory]])))

\* MysqlHelper.execute(sql, bind, options); RowType is options.get("RowType").
mysql_execute(sql, bind, RowType) ==
    Bind(con(base_execute(Here, sql, bind)), LAMBDA h :
        Bind(sql_to_mysql(sql), LAMBDA text :
            Bind(Run("mysql", PercentS, text, bind, h.table, h.txn, h.con), LAMBDA r :
                IF r.res.ok
                THEN [h EXCEPT !.cur = [names |-> r.res.names, rows |-> r.res.rows,
                                        factory |-> IF RowType = "Dict" THEN "dict" ELSE "None"],
                               !.table = r.res.table, !.txn = r.txn]
                ELSE [h EXCEPT !.raised = "DriverError"])))

\* self.execute(sql, bind, kw=want) on the helper's class.  kw is the keyword
\* the caller uses for the row shape ("none" when it passes none), want the
\* shape it asks for: fetch_dicts=True or options={"RowType": "Dict"} is "dict".
execute(sql, bind, kw, want, now) ==
    IF adapter = "sqlite"
    THEN IF kw = "options" THEN Unbound
         ELSE sqlite_execute(sql, bind, kw = "fetch_dicts" /\ want = "dict", now)
    ELSE IF kw = "fetch_dicts" THEN Unbound
         ELSE mysql_execute(sql, bind, IF kw = "options" /\ want = "dict" THEN "Dict" ELSE "Tuple")

\* SqlHelper._row: the outcome and the Optional row returned.
_row(sql, bind, fetch_dicts, now) ==
    Bind(execute(sql, bind, "fetch_dicts", IF fetch_dicts THEN "dict" ELSE "tuple", now), LAMBDA o :
        IF o.raised # "" THEN [o |-> o, row |-> <<>>]
        ELSE Bind([row |-> fetchone(o.cur, 1), row2 |-> fetchone(o.cur, 2)], LAMBDA f :
                 IF Truthy(f.row2) THEN [o |-> [o EXCEPT !.raised = "RuntimeError"], row |-> <<>>]
                 ELSE [o |-> o, row |-> f.row]))

\* SqlHelper.t_row and SqlHelper.row.
t_row(sql, bind, now) == _row(sql, bind, FALSE, now)

row(sql, bind, now) == _row(sql, bind, TRUE, now)

\* SqlHelper.value: the outcome and the Optional scalar returned.
value(sql, bind, now) ==
    Bind(t_row(sql, bind, now), LAMBDA r :
        IF r.o.raised # "" THEN [o |-> r.o, scalar |-> <<>>]
        ELSE IF Truthy(r.row)
             THEN IF HasItem0(r.row[1]) THEN [o |-> r.o, scalar |-> <<r.row[1].vals[1]>>]
                  ELSE [o |-> [r.o EXCEPT !.raised = "KeyError"], scalar |-> <<>>]
        ELSE [o |-> r.o, scalar |-> <<>>])

\* SqlHelper.rows (fetch_dicts) and SqlHelper.t_rows: the outcome and the
\* tuple of rows returned.
rows(sql, bind, fetch_dicts, now) ==
    Bind(execute(sql, bind, "fetch_dicts", IF fetch_dicts THEN "dict" ELSE "tuple", now), LAMBDA o :
        IF o.raised # "" THEN [o |-> o, rows |-> <<>>]
        ELSE [o |-> o, rows |-> fetchall(o.cur)])

\* SqlHelper.column: the outcome and the list of first fields returned.
column(sql, bind, now) ==
    Bind(execute(sql, bind, "fetch_dicts", "tuple", now), LAMBDA o :
        IF o.raised # "" THEN [o |-> o, scalars |-> <<>>]
        ELSE Bind(fetchall(o.cur), LAMBDA all :
                 IF \E i \in 1..Len(all) : ~HasItem0(all[i])
                 THEN [o |-> [o EXCEPT !.raised = "KeyError"], scalars |-> <<>>]
                 ELSE [o |-> o, scalars |-> [i \in 1..Len(all) |-> all[i].vals[1]]]))

-----------------------------------------------------------------------------
(* The calls of the model.                                                 *)

SelectAll == <<"SELECT ", "*", " FROM ", TableName>>

SelectById(marker) ==
    <<"SELECT ", "Id", ",", "Value", " FROM ", TableName, " WHERE ", "Id", "=">> \o marker

SelectMarker(marker) == <<"SELECT ">> \o marker

Malformed == <<"SELEC">>

\* The statements callers run, each with its bind list.
Queries ==
    {[sql |-> SelectAll, bind |-> <<>>], [sql |-> Malformed, bind |-> <<>>],
     [sql |-> SelectMarker(QMark), bind |-> <<"2">>],
     [sql |-> SelectMarker(PercentS), bind |-> <<"2">>]}
    \cup {[sql |-> SelectById(QMark), bind |-> <<v>>] : v \in Scalars}

\* How a caller of execute asks for a row shape.
ShapeArgs ==
    {<<"none", "tuple">>, <<"fetch_dicts", "tuple">>, <<"fetch_dicts", "dict">>,
     <<"options", "tuple">>, <<"options", "dict">>}

\* The mappings of the calls: columns to scalars, in every key order, the
\* values of one mapping distinct so that each shows which column it went to.
Mappings ==
    {m \in SeqsUpTo(ColumnSet \X Scalars, Len(Columns)) :
        \A i, j \in 1..Len(m) : i # j => m[i][1] # m[j][1] /\ m[i][2] # m[j][2]}

Row1 == [c \in ColumnSet |-> IF c = "Id" THEN "1" ELSE "2"]

Row2 == [c \in ColumnSet |-> IF c = "Id" THEN "2" ELSE "1"]

NoCall ==
    [op |-> "new", sql |-> <<>>, bind |-> <<>>, attributes |-> <<>>, filters |-> <<>>,
     kw |-> "none", want |-> "tuple", raised |-> "", returned |-> "None",
     rows |-> <<>>, scalars |-> <<>>, text |-> <<>>, conn |-> 0]

Query(op, q) == [NoCall EXCEPT !.op = op, !.sql = q.sql, !.bind = q.bind]

\* Whether the con accessor can still open a connection of the model.
CanUseCon == IF _con # 0 THEN TRUE ELSE opened < MaxConn

Apply(o) ==
    /\ adapter' = adapter
    /\ _con' = o.con
    /\ opened' = o.opened
    /\ lazy' = o.lazy
    /\ row_factory' = o.rf
    /\ table' = o.table
    /\ committed' = committed
    /\ txn' = o.txn
    /\ _last_sql' = o.last_sql
    /\ _last_bind' = o.last_bind

\* db.execute(sql, bind) with the row shape asked for by keyword kw.
Execute(q, kw, want) ==
    /\ CanUseCon
    /\ \E now \in ClockFor(q.sql) :
         \E o \in {execute(q.sql, q.bind, kw, want, now)} :
            /\ Apply(o)
            /\ ret' = [Query("execute", q) EXCEPT
                          !.kw = kw, !.want = want, !.raised = o.raised,
                          !.returned = IF o.raised = "" THEN "cursor" ELSE "None",
                          !.rows = IF o.raised = "" THEN fetchall(o.cur) ELSE <<>>]

\* db.row(sql, bind) and db.t_row(sql, bind).
Row(q, op) ==
    /\ CanUseCon
    /\ \E now \in ClockFor(q.sql) :
         \E r \in {IF op = "row" THEN row(q.sql, q.bind, now) ELSE t_row(q.sql, q.bind, now)} :
            /\ Apply(r.o)
            /\ ret' = [Query(op, q) EXCEPT
                          !.raised = r.o.raised,
                          !.returned = IF r.row = <<>> THEN "None" ELSE "row",
                          !.rows = r.row]

\* db.value(sql, bind).
Value(q) ==
    /\ CanUseCon
    /\ \E now \in ClockFor(q.sql) :
         \E r \in {value(q.sql, q.bind, now)} :
            /\ Apply(r.o)
            /\ ret' = [Query("value", q) EXCEPT
                          !.raised = r.o.raised,
                          !.returned = IF r.scalar = <<>> THEN "None" ELSE "scalar",
                          !.scalars = r.scalar]

\* db.rows(sql, bind) and db.t_rows(sql, bind).
Rows(q, op) ==
    /\ CanUseCon
    /\ \E now \in ClockFor(q.sql) :
         \E r \in {rows(q.sql, q.bind, op = "rows", now)} :
            /\ Apply(r.o)
            /\ ret' = [Query(op, q) EXCEPT
                          !.raised = r.o.raised,
                          !.returned = IF r.o.raised = "" THEN "rows" ELSE "None",
                          !.rows = r.rows]

\* db.column(sql, bind).
Column(q) ==
    /\ CanUseCon
    /\ \E now \in ClockFor(q.sql) :
         \E r \in {column(q.sql, q.bind, now)} :
            /\ Apply(r.o)
            /\ ret' = [Query("column", q) EXCEPT
                          !.raised = r.o.raised,
                          !.returned = IF r.o.raised = "" THEN "list" ELSE "None",
                          !.scalars = r.scalars]

\* db.insert("Test", attributes).
Insert(attributes) ==
    /\ CanUseCon
    /\ Len(table) < MaxRows
    /\ \E sql \in {insert_sql(TableName, attributes)}, bind \in {insert_bind(attributes)} :
         \E now \in ClockFor(sql) :
            \E o \in {execute(sql, bind, "none", "tuple", now)} :
               /\ Apply(o)
               /\ ret' = [NoCall EXCEPT !.op = "insert", !.attributes = attributes,
                                        !.sql = sql, !.bind = bind, !.raised = o.raised]

\* An update without the early return on empty attributes.
UpdateAlways(attributes, filters) ==
    /\ CanUseCon
    /\ \E sql \in {update_sql(TableName, attributes, filters)},
          bind \in {update_bind(attributes, filters)} :
         \E now \in ClockFor(sql) :
            \E o \in {execute(sql, bind, "none", "tuple", now)} :
               /\ Apply(o)
               /\ ret' = [NoCall EXCEPT !.op = "update", !.attributes = attributes,
                                        !.filters = filters, !.sql = sql, !.bind = bind,
                                        !.raised = o.raised]

\* db.update("Test", attributes, filters).
Update(attributes, filters) ==
    IF Len(attributes) = 0
    THEN /\ UNCHANGED <<adapter, _con, opened, lazy, row_factory, table, committed, txn, _last_sql, _last_bind>>
         /\ ret' = [NoCall EXCEPT !.op = "update", !.attributes = attributes, !.filters = filters]
    ELSE /\ CanUseCon
         /\ \E sql \in {update_sql(TableName, attributes, filters)},
               bind \in {update_bind(attributes, filters)} :
              \E now \in ClockFor(sql) :
                 \E o \in {execute(sql, bind, "none", "tuple", now)} :
                    /\ Apply(o)
                    /\ ret' = [NoCall EXCEPT !.op = "update", !.attributes = attributes,
                                             !.filters = filters, !.sql = sql, !.bind = bind,
                                             !.raised = o.raised]

\* db.last_sql().
LastSql ==
    \E r \in {last_sql(_last_sql, _last_bind)} :
       /\ UNCHANGED <<adapter, _con, opened, lazy, row_factory, table, committed, txn, _last_sql, _last_bind>>
       /\ ret' = [NoCall EXCEPT !.op = "last_sql", !.raised = r.raised, !.text = r.text,
                                !.returned = IF r.raised = "" THEN "text" ELSE "None"]

\* db.con, read by the caller: the accessor alone.
GetCon ==
    /\ CanUseCon
    /\ \E o \in {con(Here)} :
          /\ Apply(o)
          /\ ret' = [NoCall EXCEPT !.op = "con", !.returned = "connection", !.conn = o.con]

\* db.connect(), called directly: a new connection, which the helper does not keep.
Connect ==
    /\ opened < MaxConn
    /\ opened' = opened + 1
    /\ UNCHANGED <<adapter, _con, lazy, row_factory, table, committed, txn, _last_sql, _last_bind>>
    /\ ret' = [NoCall EXCEPT !.op = "connect", !.returned = "connection", !.conn = opened + 1]

\* db.con = c: the setter, with a connection the caller holds or has just
\* opened, or with None (c = 0), which it stores as well.  The helper now
\* sees the table as that connection does.
SetCon(c) ==
    /\ c <= MaxConn
    /\ _con' = c
    /\ opened' = IF c > opened THEN c ELSE opened
    /\ table' = View(txn, c, committed)
    /\ UNCHANGED <<adapter, lazy, row_factory, committed, txn, _last_sql, _last_bind>>
    /\ ret' = [NoCall EXCEPT !.op = "con.setter", !.conn = c]

\* The adapter's translation of a statement, as execute applies it.
translate(sql, now) == IF adapter = "sqlite" THEN sql_to_sqlite3(sql, now) ELSE sql_to_mysql(sql)

\* db.sql_to_sqlite3(text) or db.sql_to_mysql(text) on the text at hand.
Translate ==
    /\ ret.op = "text"
    /\ \E now \in Times : ret' = [ret EXCEPT !.op = "translate", !.text = translate(ret.sql, now)]
    /\ UNCHANGED <<adapter, _con, opened, lazy, row_factory, table, committed, txn, _last_sql, _last_bind>>

\* The translation applied to its own result.
TranslateAgain ==
    /\ ret.op = "translate"
    /\ \E now \in Times :
         ret' = [ret EXCEPT !.op = "translate_again", !.sql = ret.text,
                            !.text = translate(ret.text, now)]
    /\ UNCHANGED <<adapter, _con, opened, lazy, row_factory, table, committed, txn, _last_sql, _last_bind>>

-----------------------------------------------------------------------------
(* Specifications.                                                         *)

\* SqliteHelper(url, con) or MysqlHelper(url, con) on a database whose table
\* Test holds tbl; injected says whether con was given.
New(cls, injected, tbl) ==
    /\ adapter = cls
    /\ _con = IF injected THEN 1 ELSE 0
    /\ opened = IF injected THEN 1 ELSE 0
    /\ lazy = 0
    /\ row_factory = [c \in Conns |-> "None"]
    /\ table = tbl
    /\ committed = tbl
    /\ txn = [c \in Conns |-> NoTxn]
    /\ _last_sql = <<>>
    /\ _last_bind = <<>>

\* The queries and the connection: a helper of either class on a table of
\* one or two rows.
Init ==
    /\ \E cls \in Adapters, injected \in BOOLEAN, tbl \in {<<Row1>>, <<Row1, Row2>>} :
         New(cls, injected, tbl)
    /\ ret = NoCall

Next ==
    \/ \E q \in Queries, a \in ShapeArgs : Execute(q, a[1], a[2])
    \/ \E q \in Queries, op \in {"row", "t_row"} : Row(q, op)
    \/ \E q \in Queries : Value(q)
    \/ \E q \in Queries, op \in {"rows", "t_rows"} : Rows(q, op)
    \/ \E q \in Queries : Column(q)
    \/ LastSql
    \/ GetCon
    \/ Connect
    \/ \E c \in 0..(opened + 1) : SetCon(c)

Spec == Init /\ [][Next]_vars

\* The connection: lazy or injected, with calls that use it.
ConQueries == {[sql |-> SelectAll, bind |-> <<>>], [sql |-> Malformed, bind |-> <<>>]}

NextCon ==
    \/ \E q \in ConQueries : Execute(q, "none", "tuple")
    \/ \E q \in ConQueries : Row(q, "t_row")
    \/ \E q \in ConQueries : Rows(q, "rows")
    \/ \E attributes \in {<<>>, <<<<"Id", "1">>>>} : Update(attributes, <<>>)
    \/ LastSql
    \/ GetCon
    \/ Connect
    \/ \E c \in 0..(opened + 1) : SetCon(c)

SpecCon == Init /\ [][NextCon]_vars

\* Rows with every column set.
FullRows == [ColumnSet -> Scalars]

\* insert on an open connection, from the empty table.
InitInsert ==
    /\ \E cls \in Adapters : New(cls, TRUE, <<>>)
    /\ ret = NoCall

NextInsert ==
    \/ \E attributes \in Mappings : Insert(attributes)
    \/ Rows([sql |-> SelectAll, bind |-> <<>>], "t_rows")

SpecInsert == InitInsert /\ [][NextInsert]_vars

\* SqliteHelper(url, con) or MysqlHelper(url, con) with a connection on which
\* the caller, as the db2 fixture of the tests does, has inserted the rows tbl
\* into the empty table Test and has not committed.
Filled(cls, tbl) ==
    /\ adapter = cls
    /\ _con = 1
    /\ opened = 1
    /\ lazy = 0
    /\ row_factory = [c \in Conns |-> "None"]
    /\ table = tbl
    /\ committed = <<>>
    /\ txn = [c \in Conns |->
                IF c = 1 /\ tbl # <<>>
                THEN [open |-> TRUE, rows |-> tbl, records |-> TRUE, gaps |-> FALSE]
                ELSE NoTxn]
    /\ _last_sql = <<>>
    /\ _last_bind = <<>>

\* update on a connection that holds every table of at most MaxRows full rows.
InitUpdate ==
    /\ \E cls \in Adapters, tbl \in SeqsUpTo(FullRows, MaxRows) : Filled(cls, tbl)
    /\ ret = NoCall

\* The filters that name columns of Row1 with its values, in column order.
Filters ==
    {m \in Mappings : /\ \A i \in 1..Len(m) : m[i][2] = Row1[m[i][1]]
                      /\ \A i, j \in 1..Len(m) : i < j => IndexOf(Columns, m[i][1]) < IndexOf(Columns, m[j][1])}

NextUpdate == \E attributes \in Mappings, filters \in Filters : Update(attributes, filters)

SpecUpdate == InitUpdate /\ [][NextUpdate]_vars

\* The alphabet of the statements translated.
Alphabet == {"%", "s", "?", "x", "unix_timestamp", "UNIX_TIMESTAMP", "(", ")"}

MarkerQueries == {[sql |-> SelectMarker(m), bind |-> <<"2">>] : m \in {QMark, PercentS}}

\* The translation of every statement of at most MaxLen lexemes, and the two
\* placeholder forms run through execute.
InitTranslate ==
    /\ \E cls \in Adapters : New(cls, TRUE, <<Row1, Row2>>)
    /\ \E s \in SeqsUpTo(Alphabet, MaxLen) : ret = [NoCall EXCEPT !.op = "text", !.sql = s]

NextTranslate ==
    \/ Translate
    \/ TranslateAgain
    \/ \E q \in MarkerQueries : Execute(q, "none", "tuple")

SpecTranslate == InitTranslate /\ [][NextTranslate]_vars

-----------------------------------------------------------------------------
(* Properties.  ret holds the last call, so a property of a call reads ret *)
(* in the state after it, or ret' and the state before it in a step.       *)

\* The placeholder of the adapter's driver.
Marker == IF adapter = "sqlite" THEN QMark ELSE PercentS

\* What a query yields on the table as it stands, read by the adapter's driver.
Yield(sql, bind) == DriverExecute(Marker, translate(sql, 0), bind, table)

\* The operations that hand a statement to execute.
Executing == {"execute", "row", "t_row", "value", "rows", "t_rows", "column", "insert", "update"}

\* C1: row and value return None when the query yields no row, the single
\* row (value: its first field) when it yields one, and raise RuntimeError,
\* returning nothing, when it yields two or more.
C1_SingleRowFetch ==
    [][(ret'.op \in {"row", "value"} /\ Yield(ret'.sql, ret'.bind).ok) =>
          LET y == Yield(ret'.sql, ret'.bind).rows
          IN CASE Len(y) = 0 -> ret'.raised = "" /\ ret'.returned = "None"
               [] Len(y) = 1 ->
                    /\ ret'.raised = ""
                    /\ ret'.op = "row" => (ret'.returned = "row" /\ ret'.rows[1].vals = y[1])
                    /\ ret'.op = "value" => ret'.scalars = <<y[1][1]>>
               [] OTHER -> ret'.raised = "RuntimeError" /\ ret'.returned = "None"]_vars

\* C2: row called without options returns the row as a positional tuple, and
\* execute called with options={"RowType": "Dict"} is accepted and its cursor
\* fetches rows addressable by column name.
C2_RowShapePerCall ==
    /\ (ret.op = "row" /\ ret.returned = "row") => ret.rows[1].shape = "tuple"
    /\ (ret.op = "execute" /\ ret.kw = "options" /\ ret.want = "dict") =>
          /\ ret.raised # "TypeError"
          /\ \A i \in 1..Len(ret.rows) : ret.rows[i].shape = "dict"

\* C3: after any calls of SqliteHelper.execute, returning or failing in the
\* driver, row_factory of the connection is what it was before the first,
\* and the rows of a call have the shape that call asked for.
C3_RowFactoryRestored ==
    adapter = "sqlite" =>
       /\ \A c \in Conns : row_factory[c] = "None"
       /\ (ret.op = "execute" /\ ret.raised = "") =>
             \A i \in 1..Len(ret.rows) :
                ret.rows[i].shape = (IF ret.kw = "fetch_dicts" THEN ret.want ELSE "tuple")

\* C4: update with empty attributes, whatever the filters, hands no statement
\* to execute and changes neither the table nor the recorded last statement
\* nor anything else of the helper, so repeating it changes nothing either.
C4_EmptyUpdateNoOp ==
    [][(ret'.op = "update" /\ ret'.attributes = <<>>) =>
          /\ ret'.sql = <<>> /\ ret'.raised = ""
          /\ UNCHANGED <<table, committed, txn, _last_sql, _last_bind, _con, opened, lazy, row_factory>>]_vars

C4_Witness ==
    /\ ret.op = "update" /\ ret.attributes = <<>> /\ ret.filters # <<>>
    /\ _last_sql # <<>> /\ Len(table) = MaxRows

\* The table after attributes are written to the rows that have every filter value.
UpdateExpected(tbl, attributes, filters) ==
    [i \in 1..Len(tbl) |->
        [c \in ColumnSet |->
            IF /\ \A j \in 1..Len(filters) : tbl[i][filters[j][1]] = filters[j][2]
               /\ \E j \in 1..Len(attributes) : attributes[j][1] = c
            THEN attributes[CHOOSE j \in 1..Len(attributes) : attributes[j][1] = c][2]
            ELSE tbl[i][c]]]

\* The columns of the "column = placeholder" items of a statement, in text order.
RECURSIVE ColumnsBound(_)
ColumnsBound(s) ==
    IF Len(s) < 5 THEN <<>>
    ELSE IF s[1] = Backquote /\ s[3] = Backquote /\ s[4] = "=" /\ s[5] = "?"
         THEN <<s[2]>> \o ColumnsBound(Drop(s, 5))
         ELSE ColumnsBound(Tail(s))

\* The part of an UPDATE statement ahead of its WHERE.
SetPart(s) == IF " WHERE " \in Range(s) THEN SubSeq(s, 1, IndexOf(s, " WHERE ") - 1) ELSE s

\* C5: update with non-empty attributes writes the attribute values to exactly
\* the rows that have every filter value (all rows when there is no filter)
\* and leaves the rest as it was; the statement has one placeholder per
\* attribute and then one per filter, each after its own column, and the bind
\* list is the attribute values and then the filter values, in mapping order.
C5_UpdateExact ==
    [][(ret'.op = "update" /\ ret'.attributes # <<>>) =>
          /\ ret'.raised = ""
          /\ table' = UpdateExpected(table, ret'.attributes, ret'.filters)
          /\ Count(QMark, ret'.sql) = Len(ret'.attributes) + Len(ret'.filters)
          /\ ColumnsBound(ret'.sql) = Keys(ret'.attributes) \o Keys(ret'.filters)
          /\ ColumnsBound(SetPart(ret'.sql)) = Keys(ret'.attributes)
          /\ ret'.bind = Values(ret'.attributes) \o Values(ret'.filters)
          /\ _last_sql' = <<ret'.sql>> /\ _last_bind' = <<ret'.bind>>]_vars

C5_Witness ==
    /\ ret.op = "update" /\ Len(ret.attributes) = 2 /\ Len(ret.filters) = 2
    /\ Len(table) = MaxRows
    /\ \E i, j \in 1..Len(table) :
          /\ \A k \in 1..2 : table[i][ret.attributes[k][1]] = ret.attributes[k][2]
          /\ \E k \in 1..2 : table[j][ret.attributes[k][1]] # ret.attributes[k][2]

\* C6: insert with any attributes, the empty mapping too, adds exactly one row
\* to the table, its fields the attribute values; the statement has one
\* placeholder per attribute and the bind list is the values in mapping order.
C6_InsertAddsRow ==
    [][ret'.op = "insert" =>
          /\ Len(table') = Len(table) + 1
          /\ SubSeq(table', 1, Len(table)) = table
          /\ \A k \in 1..Len(ret'.attributes) :
                table'[Len(table')][ret'.attributes[k][1]] = ret'.attributes[k][2]
          /\ Count(QMark, ret'.sql) = Len(ret'.attributes)
          /\ ret'.bind = Values(ret'.attributes)]_vars

\* C7: on either adapter rows hands the statement to the adapter's execute
\* with named rows asked for, which that execute accepts, and returns every
\* row of the result, in order, as a mapping from column name to value.
C7_RowsNamedOnEitherAdapter ==
    [][(ret'.op = "rows" /\ Yield(ret'.sql, ret'.bind).ok) =>
          LET y == Yield(ret'.sql, ret'.bind)
          IN /\ ret'.raised = ""
             /\ Len(ret'.rows) = Len(y.rows)
             /\ \A i \in 1..Len(y.rows) :
                   /\ ret'.rows[i].shape = "dict"
                   /\ ret'.rows[i].names = y.names
                   /\ ret'.rows[i].vals = y.rows[i]]_vars

\* A statement with every placeholder, of either form, replaced by one mark.
RECURSIVE Skeleton(_)
Skeleton(s) ==
    IF s = <<>> THEN <<>>
    ELSE IF IsPrefix(PercentS, s) THEN <<"<marker>">> \o Skeleton(Drop(s, 2))
    ELSE IF Head(s) = "?" THEN <<"<marker>">> \o Skeleton(Tail(s))
    ELSE <<Head(s)>> \o Skeleton(Tail(s))

\* The text around the placeholders, which sql_to_sqlite3 changes only where
\* it writes the clock for unix_timestamp().
SameSkeleton(sql, text) ==
    IF adapter = "sqlite"
    THEN \E now \in Times :
            Skeleton(text) = ReSub(<<"unix_timestamp", "(", ")">>, IntToStr(now), Skeleton(sql), TRUE)
    ELSE Skeleton(text) = Skeleton(sql)

\* The placeholder form the adapter's driver does not read.
Foreign == IF adapter = "sqlite" THEN PercentS ELSE QMark

\* C8: the adapter's translation of a statement with placeholders of either
\* form holds only the placeholder of its driver, as many as the statement
\* had and at the same places; translating the result again changes nothing;
\* and SELECT <placeholder> with bind [2] returns 2 for either form.
C8_PlaceholderTranslation ==
    /\ ret.op \in {"translate", "translate_again"} =>
          /\ Count(Foreign, ret.text) = 0
          /\ Count(Marker, ret.text) = Count(QMark, ret.sql) + Count(PercentS, ret.sql)
          /\ SameSkeleton(ret.sql, ret.text)
    /\ ret.op = "translate_again" => ret.text = ret.sql
    /\ ret.op = "execute" =>
          ret.raised = "" /\ Len(ret.rows) = 1 /\ ret.rows[1].vals = <<"2">>

C8_Witness ==
    /\ ret.op = "translate_again" /\ adapter = "mysql"
    /\ Count(PercentS, ret.text) = 2
    /\ Count(QMark, ret.sql) = 0

\* The text last_sql renders for a recorded statement and bind list.
Rendering(sql, bind) ==
    <<"SQL: ">> \o sql \o <<", Bind: (">> \o Join(<<", ">>, Texts(bind)) \o <<")">>

\* C9: last_sql returns a text in every state, the initial one too, and the
\* text renders the statement and bind values of the latest call of execute,
\* as the caller passed them, whether or not the driver ran it.
C9_LastSqlText ==
    /\ ret.op = "last_sql" =>
          /\ ret.raised = "" /\ ret.returned = "text"
          /\ _last_sql # <<>> => ret.text = Rendering(_last_sql[1], _last_bind[1])
    /\ (ret.op \in Executing /\ ret.sql # <<>> /\ ret.raised # "TypeError") =>
          _last_sql = <<ret.sql>> /\ _last_bind = <<ret.bind>>

\* The operations that reached the connection: a call binds its arguments
\* and, in update, passes the early return before it reads con.
UsesCon(r) == r.op = "con" \/ (r.op \in Executing /\ r.raised # "TypeError" /\ r.sql # <<>>)

\* C10, as stated: the accessor calls connect() at most once, and a cached
\* connection is the connection of every later operation.
C10_SameConnectionForever ==
    [][lazy' <= 1 /\ (_con # 0 => _con' = _con)]_vars

\* C10, amended: the accessor calls connect() exactly when it is used while
\* the helper holds no connection, which is so on a helper built without one
\* and again after the setter has stored None, and never while one is held;
\* a held connection stays until the setter stores something in its place;
\* connect() called directly returns a new connection and leaves the held one.
C10_ConnectOnlyWithoutConnection ==
    [][/\ lazy' # lazy => (_con = 0 /\ lazy' = lazy + 1 /\ opened' = opened + 1 /\ _con' = opened')
       /\ (_con = 0 /\ UsesCon(ret')) => (lazy' = lazy + 1 /\ _con' # 0)
       /\ (_con # 0 /\ ret'.op # "con.setter") => _con' = _con
       /\ (_con = 0 /\ ~UsesCon(ret') /\ ret'.op # "con.setter") => _con' = 0
       /\ ret'.op = "con.setter" => (_con' = ret'.conn /\ lazy' = lazy)
       /\ ret'.op = "connect" =>
             (_con' = _con /\ lazy' = lazy /\ ret'.conn = opened' /\ opened' = opened + 1)]_vars

\* The accessor has connected, the setter has stored None, and the next
\* statement has made the accessor connect again.
C10_Witness ==
    /\ lazy = 2 /\ _con = 2
    /\ ret.op \in Executing /\ ret.raised = ""
    /\ _last_sql # <<>>

====
